---- MODULE Spec2Model ----
(***************************************************************************)
(* A model of sphinx_design/grids.py: the responsive option encoder        *)
(* (_media_option and its three call sites) and the three directives       *)
(* grid, grid-item and grid-item-card that build the component tree.       *)
(*                                                                         *)
(* Text is modelled as it is in the program.  An input string is a         *)
(* sequence of one-character strings, so that strip/split and int() are    *)
(* computed character by character; an output class name is a TLA+ string  *)
(* built with \o, the way the f-strings build it.                          *)
(***************************************************************************)
EXTENDS Integers, Sequences, FiniteSets, TLC

VARIABLES
    \* the encoder on its own
    words,      \* the values the author wrote for one option, in order
    argument,   \* the raw option text handed to the validator (or None)
    encoded,    \* the validator that ran and its outcome; by is "pending" before
    \* one directive building its own nodes
    self,       \* the directive instance: name, arguments, options
    built,      \* what run() built from it; of is "pending" before
    \* a document being parsed
    stack,      \* the frames of the parse: the document, then the directives
                \* whose run() is inside nested_parse
    sink,       \* the records LOGGER.warning has received, in order
    nextBlock,  \* the number of the next block the parser reads
    last,       \* the directive occurrence that ended last, and how
    halted      \* an exception left run() and ended the parse

encVars == <<words, argument, encoded>>

buildVars == <<self, built>>

parseVars == <<stack, sink, nextBlock, last, halted>>

vars == <<words, argument, encoded, self, built, stack, sink, nextBlock, last, halted>>

\* ------------------------------------------------------------------ bounds
\* Longest whitespace-separated argument that is tried (5 stands for "5 or more").
MaxValues == 5

\* Most options one directive occurrence is written with.
MaxOptions == 3

\* Most blocks (paragraphs and directive occurrences) in a document.
MaxBlocks == 4

\* Deepest nesting of directives inside directives.
MaxDepth == 2

\* ------------------------------------------------------------- text helpers
\* None is no text: a value no sequence of characters equals.
None == <<"None">>

Whitespace == {" ", "\t"}

DigitChars == <<"0", "1", "2", "3", "4", "5", "6", "7", "8", "9">>

IsDigit(c) == \E i \in 1..10 : DigitChars[i] = c

DigitValue(c) == (CHOOSE i \in 1..10 : DigitChars[i] = c) - 1

\* The Python string of a sequence of characters.
RECURSIVE Str(_)
Str(s) == IF s = <<>> THEN "" ELSE Head(s) \o Str(Tail(s))

\* str.strip().split(): the maximal runs of non-whitespace characters, in order.
\* cur is the run being read, acc the runs already closed.
RECURSIVE SplitFrom(_, _, _)
SplitFrom(s, cur, acc) ==
    IF s = <<>>
    THEN IF cur = <<>> THEN acc ELSE Append(acc, cur)
    ELSE IF Head(s) \in Whitespace
         THEN SplitFrom(Tail(s), <<>>, IF cur = <<>> THEN acc ELSE Append(acc, cur))
         ELSE SplitFrom(Tail(s), Append(cur, Head(s)), acc)

Split(s) == SplitFrom(s, <<>>, <<>>)

\* The decimal value of a run of digits and underscores, most significant first.
RECURSIVE DigitsValue(_, _)
DigitsValue(s, acc) ==
    IF s = <<>> THEN acc
    ELSE IF Head(s) = "_" THEN DigitsValue(Tail(s), acc)
         ELSE DigitsValue(Tail(s), 10 * acc + DigitValue(Head(s)))

\* The body of an int() literal after its sign: digits, with single
\* underscores allowed between two digits.
IsDigitRun(s) ==
    /\ Len(s) >= 1
    /\ IsDigit(s[1])
    /\ IsDigit(s[Len(s)])
    /\ \A i \in 1..Len(s) : IsDigit(s[i]) \/ s[i] = "_"
    /\ \A i \in 1..(Len(s) - 1) : ~(s[i] = "_" /\ s[i + 1] = "_")

\* int(value) of Python on a string without surrounding whitespace:
\* an optional sign, then a digit run; anything else raises.
IntParses(v) ==
    IF v # <<>> /\ Head(v) \in {"+", "-"} THEN IsDigitRun(Tail(v)) ELSE IsDigitRun(v)

IntValue(v) ==
    IF Head(v) = "-" THEN 0 - DigitsValue(Tail(v), 0)
    ELSE IF Head(v) = "+" THEN DigitsValue(Tail(v), 0)
    ELSE DigitsValue(v, 0)

\* ---------------------------------------------------------- _media_option
Breakpoints == <<"xs", "sm", "md", "lg">>

\* validate_error_msg, kept as the parts the f-string joins.
ValidateErrorMsg(allow_auto, min_num, max_num) ==
    << "argument must be 1 or 4 (xs sm md lg) values, and each value should be ",
       IF allow_auto THEN "either auto or " ELSE "",
       "an integer from ", ToString(min_num), " to ", ToString(max_num) >>

Raise(line, msg) == [ok |-> FALSE, raised |-> "ValueError", line |-> line, msg |-> msg]

Return(classes) == [ok |-> TRUE, classes |-> classes]

\* A variant: Broadcast with a pair of values broadcast too.
MutBroadcast(values) ==
    IF Len(values) \in {1, 2} THEN <<values[1], values[1], values[1], values[1]>> ELSE values

\* A single value stands for all four breakpoints.
Broadcast(values) ==
    IF Len(values) = 1 THEN <<values[1], values[1], values[1], values[1]>> ELSE values

\* A variant: ValueRaises with the lower limit itself refused.
MutValueRaises(value, allow_auto, min_num, max_num) ==
    IF allow_auto /\ Str(value) = "auto" THEN 0
    ELSE IF ~IntParses(value) THEN 64
    ELSE IF ~(min_num < IntValue(value) /\ IntValue(value) <= max_num) THEN 66
    ELSE 0

\* The line of the raise a value runs into, 0 when it passes.
ValueRaises(value, allow_auto, min_num, max_num) ==
    IF allow_auto /\ Str(value) = "auto" THEN 0
    ELSE IF ~IntParses(value) THEN 64
    ELSE IF ~(min_num <= IntValue(value) /\ IntValue(value) <= max_num) THEN 66
    ELSE 0

\* The for loop stops at the first value that raises.
FirstRaising(values, allow_auto, min_num, max_num) ==
    LET bad == {i \in 1..Len(values) : ValueRaises(values[i], allow_auto, min_num, max_num) # 0}
    IN  IF bad = {} THEN 0 ELSE CHOOSE i \in bad : \A j \in bad : i <= j

\* A variant: MediaClasses with the unqualified class taken from the last value.
MutMediaClasses(prefix, values) ==
    <<prefix \o Str(values[4])>>
        \o [i \in 1..4 |-> prefix \o Breakpoints[i] \o "-" \o Str(values[i])]

\* The returned list: the unqualified class, then one class per breakpoint.
MediaClasses(prefix, values) ==
    <<prefix \o Str(values[1])>>
        \o [i \in 1..4 |-> prefix \o Breakpoints[i] \o "-" \o Str(values[i])]

_media_option(arg, prefix, allow_auto, min_num, max_num) ==
    LET msg == ValidateErrorMsg(allow_auto, min_num, max_num) IN
    IF arg = None THEN Raise(52, msg)
    ELSE LET values == Broadcast(Split(arg)) IN
         IF Len(values) # 4 THEN Raise(57, msg)
         ELSE LET bad == FirstRaising(values, allow_auto, min_num, max_num) IN
              IF bad # 0
              THEN Raise(ValueRaises(values[bad], allow_auto, min_num, max_num), msg)
              ELSE Return(MediaClasses(prefix, values))

row_columns_option(arg) == _media_option(arg, "sd-row-cols-", TRUE, 1, 12)

item_columns_option(arg) == _media_option(arg, "sd-col-", TRUE, 1, 12)

gutter_option(arg) == _media_option(arg, "sd-g-", FALSE, 0, 5)

\* ------------------------------------------- what the directives build
\* self.options is a dict: the validated options, here as <<key, value>> pairs
\* in the order they were written, no key twice.
Has(options, key) == \E i \in 1..Len(options) : options[i][1] = key

Get(options, key, default) ==
    IF Has(options, key)
    THEN options[CHOOSE i \in 1..Len(options) : options[i][1] = key][2]
    ELSE default

\* shared.create_component: a container node tagged with the component name.
\* src is 0 until a block of the document is known to have produced the node.
create_component(name, classes) ==
    [kind |-> name, classes |-> classes, children |-> <<>>, src |-> 0]

\* shared.is_component: the node carries that component name.
is_component(node, name) == node.kind = name

\* A variant: GridContainerClasses with text-align ahead of padding.
MutGridContainerClasses(options) ==
    <<"sd-container-fluid", "sd-sphinx-override">>
        \o Get(options, "margin", <<"sd-mb-4">>)
        \o Get(options, "text-align", <<>>)
        \o Get(options, "padding", <<>>)
        \o (IF Has(options, "outline") THEN <<"sd-border-1">> ELSE <<>>)
        \o Get(options, "class-container", <<>>)

\* GridDirective.run, the classes of the container.
GridContainerClasses(options) ==
    <<"sd-container-fluid", "sd-sphinx-override">>
        \o Get(options, "margin", <<"sd-mb-4">>)
        \o Get(options, "padding", <<>>)
        \o Get(options, "text-align", <<>>)
        \o (IF Has(options, "outline") THEN <<"sd-border-1">> ELSE <<>>)
        \o Get(options, "class-container", <<>>)

\* A variant: GridRowClasses with the gutter ahead of the columns.
MutGridRowClasses(column_classes, options) ==
    <<"sd-row">>
        \o Get(options, "gutter", <<>>)
        \o column_classes
        \o Get(options, "class-row", <<>>)

\* GridDirective.run, the classes of the row.
GridRowClasses(column_classes, options) ==
    <<"sd-row">>
        \o column_classes
        \o Get(options, "gutter", <<>>)
        \o Get(options, "class-row", <<>>)

\* GridItemDirective.run, the classes of the column.
GridItemClasses(options) ==
    <<"sd-col", "sd-d-flex">>
        \o Get(options, "columns", <<>>)
        \o Get(options, "margin", <<>>)
        \o Get(options, "padding", <<>>)
        \o Get(options, "text-align", <<>>)
        \o (IF Has(options, "outline") THEN <<"sd-border-1">> ELSE <<>>)
        \o Get(options, "class", <<>>)

\* GridItemCardDirective.run, the classes of the column around the card.
GridItemCardClasses(options) ==
    <<"sd-col", "sd-d-flex">>
        \o Get(options, "columns", <<>>)
        \o Get(options, "margin", <<>>)
        \o Get(options, "padding", <<>>)
        \o Get(options, "class-item", <<>>)

\* The keys GridItemCardDirective.run hands on to the card.
CardOptionKeys ==
    { "text-align", "img-top", "img-bottom", "link", "link-type", "shadow",
      "class-card", "class-body", "class-title", "class-header", "class-footer" }

\* A variant: CardOptions that hands the margin on instead of clearing it.
MutCardOptions(options) ==
    LET kept == {k \in CardOptionKeys \cup {"margin"} : Has(options, k)}
    IN  [k \in kept \cup {"width"} |->
            IF k = "width" THEN "100%" ELSE Get(options, k, None)]

\* card_options: the dict comprehension, then the two assignments.
CardOptions(options) ==
    LET kept == {k \in CardOptionKeys : Has(options, k)}
    IN  [k \in kept \cup {"width", "margin"} |->
            IF k = "width" THEN "100%"
            ELSE IF k = "margin" THEN <<>>
            ELSE Get(options, k, None)]

\* cards.CardDirective.create_card: one card node, opaque here, which keeps
\* the title arguments and the options it was built from.
create_card(arguments, card_options) ==
    [ kind |-> "card", classes |-> <<"sd-card">>, children |-> <<>>, src |-> 0,
      arguments |-> arguments, options |-> card_options ]

\* GridDirective.run up to the nested parse: line 116 raises, or the container
\* and the row exist.
GridNodes(inst) ==
    LET columns == IF inst.arguments # <<>>
                   THEN row_columns_option(inst.arguments[1])
                   ELSE Return(<<>>)
    IN  IF ~columns.ok
        THEN [ok |-> FALSE, raised |-> columns]
        ELSE [ ok |-> TRUE,
               container |-> create_component("grid-container",
                                              GridContainerClasses(inst.options)),
               row |-> create_component("grid-row",
                                        GridRowClasses(columns.classes, inst.options)) ]

\* GridItemDirective.run, the column before its content is parsed.
GridItemColumn(inst) == create_component("grid-item", GridItemClasses(inst.options))

\* GridItemCardDirective.run, the column with the card in it.
GridItemCardColumn(inst) ==
    LET column == create_component("grid-item", GridItemCardClasses(inst.options))
        card == create_card(inst.arguments, CardOptions(inst.options))
    IN  [column EXCEPT !.children = Append(column.children, card)]

\* ------------------------------------------------- the encoder on its own
\* The value texts an author may write, with what each one means: an integer,
\* the keyword, or neither.
Auto == <<"a", "u", "t", "o">>

ValueTexts ==
    { Auto, <<"A", "u", "t", "o">>, <<"-", "1">>, <<"0">>, <<"1">>, <<"5">>, <<"+", "5">>,
      <<"6">>, <<"1", "2">>, <<"1", "3">> }

\* Beyond four values the texts are drawn from a keyword, a value in range
\* and two values out of range.
LongValueTexts == { Auto, <<"-", "1">>, <<"1">>, <<"1", "3">> }

RECURSIVE SeqsOfLen(_, _)
SeqsOfLen(S, n) ==
    IF n = 0 THEN {<<>>} ELSE {Append(s, x) : s \in SeqsOfLen(S, n - 1), x \in S}

Arguments ==
    UNION ({SeqsOfLen(ValueTexts, n) : n \in 0..4}
           \cup {SeqsOfLen(LongValueTexts, n) : n \in 5..MaxValues})

\* The raw text of the values: separated by one space, or, padded, by runs of
\* blanks and tabs with blanks around the whole.
RECURSIVE JoinValues(_, _)
JoinValues(ws, padded) ==
    IF ws = <<>> THEN <<>>
    ELSE IF Len(ws) = 1 THEN Head(ws)
    ELSE Head(ws) \o (IF padded THEN <<" ", "\t">> ELSE <<" ">>) \o JoinValues(Tail(ws), padded)

RawText(ws, padded) ==
    IF padded THEN <<" ">> \o JoinValues(ws, padded) \o <<" ", " ">> ELSE JoinValues(ws, padded)

EncodeIdle == words = <<>> /\ argument = None /\ encoded = [by |-> "idle"]

BuildIdle == self = [name |-> "idle"] /\ built = [of |-> "idle"]

ParseIdle ==
    /\ stack = <<>> /\ sink = <<>> /\ nextBlock = 0
    /\ last = [what |-> "idle"] /\ halted = FALSE

InitEncode ==
    /\ BuildIdle /\ ParseIdle
    /\ words \in Arguments
    /\ \/ \E padded \in BOOLEAN : argument = RawText(words, padded)
       \/ words = <<>> /\ argument = None
    /\ encoded = [by |-> "pending"]

CallRowColumnsOption ==
    /\ encoded.by = "pending"
    /\ encoded' = [by |-> "row_columns_option", result |-> row_columns_option(argument)]
    /\ UNCHANGED <<words, argument, buildVars, parseVars>>

CallItemColumnsOption ==
    /\ encoded.by = "pending"
    /\ encoded' = [by |-> "item_columns_option", result |-> item_columns_option(argument)]
    /\ UNCHANGED <<words, argument, buildVars, parseVars>>

CallGutterOption ==
    /\ encoded.by = "pending"
    /\ encoded' = [by |-> "gutter_option", result |-> gutter_option(argument)]
    /\ UNCHANGED <<words, argument, buildVars, parseVars>>

NextEncode == CallRowColumnsOption \/ CallItemColumnsOption \/ CallGutterOption

SpecEncode == InitEncode /\ [][NextEncode]_vars

\* ----------------------------------------------------- claims on the encoder
Called == encoded.by # "pending"

\* What the two failure classes of the encoder are in the code: the raise
\* that ends the call.
InvalidOptionArity(r) == ~r.ok /\ r.line \in {52, 57}

InvalidOptionValue(r) == ~r.ok /\ r.line \in {64, 66}

\* The parameters of the three call sites.
SiteParams ==
    [ row_columns_option  |-> [prefix |-> "sd-row-cols-", allow_auto |-> TRUE, min |-> 1, max |-> 12],
      item_columns_option |-> [prefix |-> "sd-col-", allow_auto |-> TRUE, min |-> 1, max |-> 12],
      gutter_option       |-> [prefix |-> "sd-g-", allow_auto |-> FALSE, min |-> 0, max |-> 5] ]

\* What each value text of ValueTexts denotes.
IntegerTexts == {"-1", "0", "1", "5", "+5", "6", "12", "13"}

Denotes(text) ==
    CASE text = "-1" -> 0 - 1
      [] text = "0"  -> 0
      [] text = "1"  -> 1
      [] text \in {"5", "+5"} -> 5
      [] text = "6"  -> 6
      [] text = "12" -> 12
      [] text = "13" -> 13

Acceptable(v, site) ==
    \/ SiteParams[site].allow_auto /\ Str(v) = "auto"
    \/ /\ Str(v) \in IntegerTexts
       /\ SiteParams[site].min <= Denotes(Str(v))
       /\ Denotes(Str(v)) <= SiteParams[site].max

\* C1: every accepted input yields exactly the five classes prefix+v0,
\* prefix+xs-v0, prefix+sm-v1, prefix+md-v2, prefix+lg-v3 of its four values,
\* a single value v counting as v v v v.
C1_FiveClassesInOrder ==
    (Called /\ encoded.result.ok) =>
        /\ Len(words) \in {1, 4}
        /\ LET p == SiteParams[encoded.by].prefix
               v == IF Len(words) = 1 THEN [i \in 1..4 |-> words[1]] ELSE words
           IN  encoded.result.classes =
                   << p \o Str(v[1]), p \o "xs-" \o Str(v[1]), p \o "sm-" \o Str(v[2]),
                      p \o "md-" \o Str(v[3]), p \o "lg-" \o Str(v[4]) >>

C1_Witness ==
    /\ Called /\ encoded.result.ok
    /\ Len(words) = 4 /\ words[1] # words[4] /\ words[2] # words[3]
    /\ argument # JoinValues(words, FALSE)

\* C2: a text fails for its arity, with no classes returned, exactly when the
\* number of values in it is neither 1 nor 4, whatever the values are.
C2_ArityFailureIffNot1Or4 ==
    (Called /\ argument # None) =>
        /\ InvalidOptionArity(encoded.result) <=> Len(words) \notin {1, 4}
        /\ ~encoded.result.ok => "classes" \notin DOMAIN encoded.result

C2_Witness ==
    /\ Called /\ InvalidOptionArity(encoded.result)
    /\ Len(words) = 2 /\ \A i \in 1..2 : Acceptable(words[i], encoded.by)

\* C3 as stated: with 1 or 4 values the call succeeds exactly when every value
\* is acceptable at the call site, and otherwise fails for the value, the
\* failure carrying an offending value.
C3_ValueFailureCarriesValue ==
    (Called /\ Len(words) \in {1, 4}) =>
        /\ encoded.result.ok <=> \A i \in 1..Len(words) : Acceptable(words[i], encoded.by)
        /\ ~encoded.result.ok =>
              /\ InvalidOptionValue(encoded.result)
              /\ \E i \in 1..Len(words) :
                    /\ ~Acceptable(words[i], encoded.by)
                    /\ \E k \in 1..Len(encoded.result.msg) : encoded.result.msg[k] = Str(words[i])

\* C3 amended: ... and otherwise fails for the value, with the one message of
\* the call site, which names the allowed range and keyword and no value.
C3_AcceptedIffAllAcceptable ==
    (Called /\ Len(words) \in {1, 4}) =>
        /\ encoded.result.ok <=> \A i \in 1..Len(words) : Acceptable(words[i], encoded.by)
        /\ ~encoded.result.ok =>
              /\ InvalidOptionValue(encoded.result)
              /\ encoded.result.msg =
                    << "argument must be 1 or 4 (xs sm md lg) values, and each value should be ",
                       IF encoded.by = "gutter_option" THEN "" ELSE "either auto or ",
                       "an integer from ",
                       IF encoded.by = "gutter_option" THEN "0" ELSE "1",
                       " to ",
                       IF encoded.by = "gutter_option" THEN "5" ELSE "12" >>

C3_Witness ==
    /\ Called /\ InvalidOptionValue(encoded.result)
    /\ encoded.by = "gutter_option"
    /\ Len(words) = 4 /\ Str(words[1]) = "5" /\ Str(words[4]) = "auto"

\* ------------------------------------- one directive building its own nodes
\* option_spec of the three directives: the keys.
GridOptionKeys ==
    {"gutter", "margin", "padding", "text-align", "outline", "class-container", "class-row"}

GridItemOptionKeys == {"columns", "margin", "padding", "outline", "text-align", "class"}

GridItemCardOptionKeys ==
    { "columns", "margin", "padding", "text-align", "img-top", "img-bottom", "link",
      "link-type", "shadow", "class-item", "class-card", "class-body", "class-title",
      "class-header", "class-footer" }

OptionKeys(name) ==
    CASE name = "grid" -> GridOptionKeys
      [] name = "grid-item" -> GridItemOptionKeys
      [] name = "grid-item-card" -> GridItemCardOptionKeys

\* A value each option's validator returns for some text: class lists from
\* the encoder and the spacing, alignment and class-list validators, None
\* from a flag, the text from a uri or a choice.
ValidatedValue(key) ==
    CASE key = "gutter" -> gutter_option(<<"3">>).classes
      [] key = "columns" -> item_columns_option(<<"6">>).classes
      [] key = "margin" -> <<"sd-mt-2", "sd-mb-2">>
      [] key = "padding" -> <<"sd-p-1">>
      [] key = "text-align" -> <<"sd-text-center">>
      [] key = "outline" -> None
      [] key \in {"img-top", "img-bottom", "link"} -> "target-" \o key
      [] key = "link-type" -> "url"
      [] key = "shadow" -> "md"
      [] OTHER -> <<"my-" \o key>>

\* The ways to write up to n of the keys S, each at most once, in any order.
RECURSIVE KeyOrders(_, _)
KeyOrders(S, n) ==
    IF n = 0 THEN {<<>>}
    ELSE LET shorter == KeyOrders(S, n - 1)
         IN  shorter \cup
             UNION { {Append(s, k) : k \in S \ {s[i] : i \in 1..Len(s)}} :
                     s \in {t \in shorter : Len(t) = n - 1} }

WrittenOptions(name) ==
    { [i \in 1..Len(ks) |-> <<ks[i], ValidatedValue(ks[i])>>] : ks \in KeyOrders(OptionKeys(name), MaxOptions) }

WrittenArguments(name) ==
    CASE name = "grid" -> {<<>>, <<<<"2">>>>, <<<<"1", " ", "2", " ", "3", " ", "4">>>>, <<<<"0">>>>}
      [] name = "grid-item" -> {<<>>}
      [] name = "grid-item-card" -> {<<>>, <<<<"T", "i", "t", "l", "e">>>>}

InitBuild ==
    /\ EncodeIdle /\ ParseIdle
    /\ \E name \in {"grid", "grid-item", "grid-item-card"} :
         \E a \in WrittenArguments(name), o \in WrittenOptions(name) :
            self = [name |-> name, arguments |-> a, options |-> o]
    /\ built = [of |-> "pending"]

\* GridDirective.run up to the nested parse.
BuildGrid ==
    /\ self.name = "grid" /\ built.of = "pending"
    /\ built' = [of |-> "grid", nodes |-> GridNodes(self)]
    /\ UNCHANGED <<self, encVars, parseVars>>

\* GridItemDirective.run up to the nested parse.
BuildGridItem ==
    /\ self.name = "grid-item" /\ built.of = "pending"
    /\ built' = [of |-> "grid-item", column |-> GridItemColumn(self)]
    /\ UNCHANGED <<self, encVars, parseVars>>

\* GridItemCardDirective.run, which parses no content of its own.
BuildGridItemCard ==
    /\ self.name = "grid-item-card" /\ built.of = "pending"
    /\ built' = [of |-> "grid-item-card", column |-> GridItemCardColumn(self)]
    /\ UNCHANGED <<self, encVars, parseVars>>

NextBuild == BuildGrid \/ BuildGridItem \/ BuildGridItemCard

SpecBuild == InitBuild /\ [][NextBuild]_vars

\* ------------------------------------------- claims on what a directive builds
\* The one order in which options contribute classes, and the options each
\* node takes classes from.
CanonicalOrder ==
    << "columns", "gutter", "margin", "padding", "text-align", "outline",
       "class-container", "class-row", "class", "class-item" >>

ContainerKeys == {"margin", "padding", "text-align", "outline", "class-container"}

RowKeys == {"gutter", "class-row"}

ItemKeys == {"columns", "margin", "padding", "text-align", "outline", "class"}

CardItemKeys == {"columns", "margin", "padding", "class-item"}

ClassListKeys == {"class-container", "class-row", "class", "class-item"}

OptionClasses(options, key) ==
    IF key = "outline" THEN <<"sd-border-1">> ELSE Get(options, key, <<>>)

RECURSIVE SuppliedInOrder(_, _, _)
SuppliedInOrder(options, applies, i) ==
    IF i > Len(CanonicalOrder) THEN <<>>
    ELSE (IF CanonicalOrder[i] \in applies /\ Has(options, CanonicalOrder[i])
          THEN OptionClasses(options, CanonicalOrder[i])
          ELSE <<>>)
         \o SuppliedInOrder(options, applies, i + 1)

\* The nodes a finished build holds, each with its fixed classes, its classes
\* from the argument and the options it takes classes from.
BuiltNodes ==
    IF built.of = "grid" /\ built.nodes.ok
    THEN { [ node |-> built.nodes.container, applies |-> ContainerKeys, argument |-> <<>>,
             base |-> <<"sd-container-fluid", "sd-sphinx-override">> ],
           [ node |-> built.nodes.row, applies |-> RowKeys, base |-> <<"sd-row">>,
             argument |-> IF self.arguments = <<>> THEN <<>>
                          ELSE row_columns_option(self.arguments[1]).classes ] }
    ELSE IF built.of = "grid-item"
    THEN { [ node |-> built.column, applies |-> ItemKeys, argument |-> <<>>,
             base |-> <<"sd-col", "sd-d-flex">> ] }
    ELSE IF built.of = "grid-item-card"
    THEN { [ node |-> built.column, applies |-> CardItemKeys, argument |-> <<>>,
             base |-> <<"sd-col", "sd-d-flex">> ] }
    ELSE {}

IsSuffix(t, s) == Len(t) <= Len(s) /\ SubSeq(s, Len(s) - Len(t) + 1, Len(s)) = t

\* C9 as stated: the classes of every built node are its fixed classes, then
\* the classes of the argument, then those of each supplied option in the
\* canonical order, the class list last.
C9_BaseArgumentThenSupplied ==
    \A n \in BuiltNodes :
        n.node.classes = n.base \o n.argument \o SuppliedInOrder(self.options, n.applies, 1)

\* The container's options with what stands in for a margin that was not given.
WithDefaultMargin(options) ==
    IF Has(options, "margin") THEN options ELSE Append(options, <<"margin", <<"sd-mb-4">>>>)

\* C9 amended: ... except that a grid-container built without a margin option
\* carries the default sd-mb-4 at the margin's place, which a supplied margin
\* replaces.
C9_CanonicalOrderWithDefaultMargin ==
    \A n \in BuiltNodes :
        LET options == IF n.node.kind = "grid-container"
                       THEN WithDefaultMargin(self.options) ELSE self.options
        IN  /\ n.node.classes = n.base \o n.argument \o SuppliedInOrder(options, n.applies, 1)
            /\ \A k \in ClassListKeys \cap n.applies :
                  Has(options, k) => IsSuffix(Get(options, k, <<>>), n.node.classes)

C9_Witness ==
    /\ built.of = "grid" /\ built.nodes.ok
    /\ self.arguments # <<>>
    /\ Len(self.options) = 3
    /\ self.options[1][1] = "class-container"
    /\ self.options[2][1] = "text-align"
    /\ self.options[3][1] = "padding"

\* C6: the options the card is built from have width "100%" and an empty
\* margin and none of columns, padding, class-item, whatever was written; the
\* classes of a written margin are on the column around the card.
C6_CardWidthAndMarginForced ==
    built.of = "grid-item-card" =>
        LET column == built.column
            card_options == column.children[1].options
        IN  /\ Len(column.children) = 1 /\ column.children[1].kind = "card"
            /\ "width" \in DOMAIN card_options /\ card_options["width"] = "100%"
            /\ "margin" \in DOMAIN card_options /\ card_options["margin"] = <<>>
            /\ DOMAIN card_options \cap {"columns", "padding", "class-item"} = {}
            /\ \A k \in CardOptionKeys :
                  Has(self.options, k) =>
                      k \in DOMAIN card_options /\ card_options[k] = Get(self.options, k, None)
            /\ Has(self.options, "margin") =>
                  \A i \in 1..Len(Get(self.options, "margin", <<>>)) :
                      \E j \in 1..Len(column.classes) :
                          column.classes[j] = Get(self.options, "margin", <<>>)[i]

C6_Witness ==
    /\ built.of = "grid-item-card"
    /\ Has(self.options, "margin") /\ Has(self.options, "padding")
    /\ Has(self.options, "shadow")
    /\ built.column.children[1].options["margin"] = <<>>

\* ------------------------------------------------------ a document being parsed
\* The parser of the host reads the blocks of a document in order.  A
\* paragraph becomes a node of the node being filled.  A directive occurrence
\* has its options converted by option_spec, then its run() called; run()
\* hands the content back to the parser (nested_parse) for the node it names.

\* The directive occurrences an author may write.
TextTwo == <<"2">>

TextOneTwo == <<"1", " ", "2">>

GridOccurrences ==
    { [name |-> "grid", arguments |-> <<TextTwo>>, raw |-> <<<<"gutter", <<"3">>>>>>,
       has_content |-> TRUE],
      [name |-> "grid", arguments |-> <<>>, raw |-> <<>>, has_content |-> FALSE],
      [name |-> "grid", arguments |-> <<TextOneTwo>>, raw |-> <<>>, has_content |-> TRUE],
      [name |-> "grid", arguments |-> <<>>, raw |-> <<<<"gutter", Auto>>>>,
       has_content |-> TRUE] }

GridItemOccurrences ==
    { [name |-> "grid-item", arguments |-> <<>>, raw |-> <<<<"columns", <<"6">>>>>>,
       has_content |-> TRUE],
      [name |-> "grid-item", arguments |-> <<>>, raw |-> <<>>, has_content |-> FALSE],
      [name |-> "grid-item", arguments |-> <<>>, raw |-> <<<<"columns", <<"1", "3">>>>>>,
       has_content |-> TRUE] }

GridItemCardOccurrences ==
    { [name |-> "grid-item-card", arguments |-> <<<<"T">>>>,
       raw |-> <<<<"columns", <<"6">>>>>>, has_content |-> TRUE],
      [name |-> "grid-item-card", arguments |-> <<>>, raw |-> <<>>, has_content |-> FALSE] }

\* option_spec: the converter of an option that takes breakpoint values.
Convert(key, text) ==
    CASE key = "gutter" -> gutter_option(text)
      [] key = "columns" -> item_columns_option(text)

\* The host converts the options in the order written and gives up at the
\* first that raises; run() is then not called.
HostOptions(raw) ==
    LET results == [i \in 1..Len(raw) |-> Convert(raw[i][1], raw[i][2])]
    IN  IF \E i \in 1..Len(raw) : ~results[i].ok
        THEN [ok |-> FALSE]
        ELSE [ok |-> TRUE,
              options |-> [i \in 1..Len(raw) |-> <<raw[i][1], results[i].classes>>]]

\* The directive instance the host creates for an occurrence read as block n.
Instance(occ, n) ==
    [ name |-> occ.name, arguments |-> occ.arguments, raw |-> occ.raw,
      options |-> HostOptions(occ.raw).options, has_content |-> occ.has_content,
      src |-> n ]

\* A variant: ContentMissing without the assertion.
MutContentMissing(inst) == FALSE

\* self.assert_has_content() raises when the occurrence has no content.
ContentMissing(inst) == ~inst.has_content

PlainNode(kind, n) == [kind |-> kind, classes |-> <<>>, children |-> <<>>, src |-> n]

FromBlock(node, n) == [node EXCEPT !.src = n]

\* A variant: RowWarnings without the break.
MutRowWarnings(row) ==
    LET NotItem(i) == ~is_component(row.children[i], "grid-item")
    IN  SelectSeq([i \in 1..Len(row.children) |-> i], NotItem)

\* The row check of GridDirective.run: the positions of the children a
\* warning is logged for.  The loop breaks at the first.
RowWarnings(row) ==
    LET bad == {i \in 1..Len(row.children) : ~is_component(row.children[i], "grid-item")}
    IN  IF bad = {} THEN <<>> ELSE <<CHOOSE i \in bad : \A j \in bad : i <= j>>

\* A variant: ParentWarned with the test the wrong way round.
MutParentWarned(node) == is_component(node, "grid-row")

\* The parent check of the two item directives, on self.state_machine.node.
ParentWarned(node) == ~is_component(node, "grid-row")

\* A variant: Warn putting the record in front.
MutWarn(records, record) == <<record>> \o records

\* LOGGER.warning: one more record for the sink.  by and within say which
\* occurrence was running and inside which others.
Warn(records, record) == Append(records, record)

RECURSIVE WarnEach(_, _)
WarnEach(records, new) ==
    IF new = <<>> THEN records ELSE WarnEach(Warn(records, Head(new)), Tail(new))

Top == stack[Len(stack)]

Running == {stack[i].inst.src : i \in 1..Len(stack)} \ {0}

WarningRecord(about, location, by, within) ==
    [ type |-> "WARNING_TYPE", subtype |-> "grid", about |-> about,
      location |-> location, by |-> by, within |-> within ]

\* What the parser has read as block n: a paragraph, or a directive occurrence.
Block(occ, n) ==
    [ name |-> occ.name, arguments |-> occ.arguments, raw |-> occ.raw,
      has_content |-> occ.has_content, src |-> n ]

ParagraphBlock(n) ==
    [name |-> "paragraph", arguments |-> <<>>, raw |-> <<>>, has_content |-> FALSE, src |-> n]

\* The node being filled gets one more child, the product of the block read.
Deliver(frames, node, block) ==
    [frames EXCEPT ![Len(frames)].node.children = Append(@, node),
                   ![Len(frames)].content = Append(@, block)]

Pop(frames) == SubSeq(frames, 1, Len(frames) - 1)

\* How a directive occurrence ended: with the nodes run() returned, or with
\* an error.  context is the node that was being filled, content the blocks
\* of the occurrence's own content.
Ended(block, outcome, context, content, result) ==
    [what |-> "ended", inst |-> block, outcome |-> outcome, context |-> context,
     content |-> content, result |-> result]

CanRead == ~halted /\ stack # <<>> /\ nextBlock <= MaxBlocks

CanNest == Len(stack) <= MaxDepth

Init ==
    /\ EncodeIdle /\ BuildIdle
    /\ stack = << [ inst |-> [name |-> "document", src |-> 0],
                    block |-> [name |-> "document", src |-> 0], context |-> "none",
                    container |-> PlainNode("none", 0),
                    node |-> PlainNode("document", 0), content |-> <<>> ] >>
    /\ sink = <<>>
    /\ nextBlock = 1
    /\ last = [what |-> "none"]
    /\ halted = FALSE

\* A block of plain text.
Paragraph ==
    /\ CanRead
    /\ stack' = Deliver(stack, PlainNode("paragraph", nextBlock), ParagraphBlock(nextBlock))
    /\ nextBlock' = nextBlock + 1
    /\ last' = [what |-> "none"]
    /\ UNCHANGED <<sink, halted, encVars, buildVars>>

\* An occurrence whose options do not convert: the host puts its error
\* message in the place of the directive.
OptionError ==
    /\ CanRead
    /\ \E occ \in GridOccurrences \cup GridItemOccurrences \cup GridItemCardOccurrences :
         /\ ~HostOptions(occ.raw).ok
         /\ stack' = Deliver(stack, PlainNode("system_message", nextBlock),
                             Block(occ, nextBlock))
         /\ last' = Ended(Block(occ, nextBlock), "option-error", Top.node.kind, <<>>, <<>>)
    /\ nextBlock' = nextBlock + 1
    /\ UNCHANGED <<sink, halted, encVars, buildVars>>

\* GridDirective.run, lines 116 to 140: to the call of nested_parse.
GridBegin ==
    /\ CanRead
    /\ \E occ \in GridOccurrences :
         /\ HostOptions(occ.raw).ok
         /\ LET inst == Instance(occ, nextBlock)
                nodes == GridNodes(inst)
            IN  IF ~nodes.ok
                THEN \* the ValueError of line 116 is no DirectiveError: it leaves the parse
                     /\ halted' = TRUE
                     /\ last' = Ended(Block(occ, nextBlock), "raised", Top.node.kind, <<>>, <<>>)
                     /\ UNCHANGED stack
                ELSE IF ContentMissing(inst)
                THEN /\ stack' = Deliver(stack, PlainNode("system_message", nextBlock),
                                         Block(occ, nextBlock))
                     /\ last' = Ended(Block(occ, nextBlock), "no-content", Top.node.kind,
                                      <<>>, <<>>)
                     /\ UNCHANGED halted
                ELSE /\ CanNest
                     /\ stack' = Append(stack,
                             [ inst |-> inst, block |-> Block(occ, nextBlock), context |-> Top.node.kind,
                               container |-> FromBlock(nodes.container, nextBlock),
                               node |-> FromBlock(nodes.row, nextBlock), content |-> <<>> ])
                     /\ last' = [what |-> "none"]
                     /\ UNCHANGED halted
    /\ nextBlock' = nextBlock + 1
    /\ UNCHANGED <<sink, encVars, buildVars>>

\* GridDirective.run, lines 141 to 152: nested_parse has returned.
GridEnd ==
    /\ ~halted /\ Len(stack) > 1
    /\ Top.inst.name = "grid" /\ Top.content # <<>>
    /\ LET row == Top.node
           container == [Top.container EXCEPT !.children = Append(@, row)]
           warned == RowWarnings(row)
       IN  /\ sink' = WarnEach(sink,
                      [ i \in 1..Len(warned) |->
                          WarningRecord("children", row.children[warned[i]].src,
                                        Top.inst.src, Running \ {Top.inst.src}) ])
           /\ stack' = Deliver(Pop(stack), container, Top.block)
           /\ last' = Ended(Top.block, "node", Top.context, Top.content, <<container>>)
    /\ UNCHANGED <<nextBlock, halted, encVars, buildVars>>

\* GridItemDirective.run, lines 173 to 195: to the call of nested_parse.
GridItemBegin ==
    /\ CanRead
    /\ \E occ \in GridItemOccurrences :
         /\ HostOptions(occ.raw).ok
         /\ LET inst == Instance(occ, nextBlock)
            IN  IF ContentMissing(inst)
                THEN /\ stack' = Deliver(stack, PlainNode("system_message", nextBlock),
                                         Block(occ, nextBlock))
                     /\ last' = Ended(Block(occ, nextBlock), "no-content", Top.node.kind,
                                      <<>>, <<>>)
                     /\ UNCHANGED sink
                ELSE /\ CanNest
                     /\ sink' = IF ParentWarned(Top.node)
                                THEN Warn(sink, WarningRecord("parent", inst.src, inst.src, Running))
                                ELSE sink
                     /\ stack' = Append(stack,
                             [ inst |-> inst, block |-> Block(occ, nextBlock), context |-> Top.node.kind,
                               container |-> PlainNode("none", 0),
                               node |-> FromBlock(GridItemColumn(inst), nextBlock),
                               content |-> <<>> ])
                     /\ last' = [what |-> "none"]
    /\ nextBlock' = nextBlock + 1
    /\ UNCHANGED <<halted, encVars, buildVars>>

\* GridItemDirective.run, line 196: nested_parse has returned.
GridItemEnd ==
    /\ ~halted /\ Len(stack) > 1
    /\ Top.inst.name = "grid-item" /\ Top.content # <<>>
    /\ stack' = Deliver(Pop(stack), Top.node, Top.block)
    /\ last' = Ended(Top.block, "node", Top.context, Top.content, <<Top.node>>)
    /\ UNCHANGED <<sink, nextBlock, halted, encVars, buildVars>>

\* GridItemCardDirective.run, whole: the card builder is given the content.
GridItemCard ==
    /\ CanRead
    /\ \E occ \in GridItemCardOccurrences :
         /\ HostOptions(occ.raw).ok
         /\ LET inst == Instance(occ, nextBlock)
            IN  IF ContentMissing(inst)
                THEN /\ stack' = Deliver(stack, PlainNode("system_message", nextBlock),
                                         Block(occ, nextBlock))
                     /\ last' = Ended(Block(occ, nextBlock), "no-content", Top.node.kind,
                                      <<>>, <<>>)
                     /\ UNCHANGED sink
                ELSE LET column == FromBlock(GridItemCardColumn(inst), nextBlock)
                     IN  /\ sink' = IF ParentWarned(Top.node)
                                    THEN Warn(sink, WarningRecord("parent", inst.src, inst.src,
                                                                  Running))
                                    ELSE sink
                         /\ stack' = Deliver(stack, column, Block(occ, nextBlock))
                         /\ last' = Ended(Block(occ, nextBlock), "node", Top.node.kind,
                                          <<>>, <<column>>)
    /\ nextBlock' = nextBlock + 1
    /\ UNCHANGED <<halted, encVars, buildVars>>

Next ==
    \/ Paragraph
    \/ OptionError
    \/ GridBegin
    \/ GridEnd
    \/ GridItemBegin
    \/ GridItemEnd
    \/ GridItemCard

Spec == Init /\ [][Next]_vars

\* ------------------------------------------------- claims on the parsed document
EndedAs(names) == last.what = "ended" /\ last.inst.name \in names

\* The warnings logged while the occurrence read as block n was running its
\* own code (not that of its content).
WarningsBy(n) == {k \in 1..Len(sink) : sink[k].by = n}

OptionsValid(block) == HostOptions(block.raw).ok

ArgumentValid(block) ==
    block.name = "grid" /\ block.arguments # <<>> => row_columns_option(block.arguments[1]).ok

IsComponentNode(node) == node.kind \in {"grid-container", "grid-row", "grid-item"}

\* C4: when a grid returns after its content was parsed, it has logged one
\* warning of subtype grid, located at the first child of the row that is no
\* grid-item, if there is such a child, and none otherwise; the container is
\* returned either way.
C4_OneRowWarningAtFirstOffender ==
    (EndedAs({"grid"}) /\ last.outcome = "node") =>
        LET row == last.result[1].children[1]
            bad == {i \in 1..Len(row.children) : row.children[i].kind # "grid-item"}
            mine == WarningsBy(last.inst.src)
        IN  /\ Len(last.result) = 1 /\ last.result[1].kind = "grid-container"
            /\ bad = {} => mine = {}
            /\ bad # {} =>
                 /\ Cardinality(mine) = 1
                 /\ \A k \in mine :
                      /\ sink[k].subtype = "grid"
                      /\ sink[k].about = "children"
                      /\ \E i \in bad : /\ \A j \in bad : i <= j
                                        /\ sink[k].location = row.children[i].src

C4_Witness ==
    /\ EndedAs({"grid"}) /\ last.outcome = "node"
    /\ LET row == last.result[1].children[1]
       IN  /\ Len(row.children) = 3
           /\ row.children[1].kind = "grid-item"
           /\ row.children[2].kind # "grid-item"
           /\ row.children[3].kind # "grid-item"
    /\ Cardinality(WarningsBy(last.inst.src)) = 1

\* What C5 says of an item occurrence that has ended.
ItemWarnsOnceAndReturnsItem ==
    /\ Cardinality(WarningsBy(last.inst.src)) = (IF last.context # "grid-row" THEN 1 ELSE 0)
    /\ \A k \in WarningsBy(last.inst.src) : sink[k].about = "parent" /\ sink[k].subtype = "grid"
    /\ last.outcome = "node"
    /\ Len(last.result) = 1 /\ last.result[1].kind = "grid-item"
    /\ last.inst.name = "grid-item-card" =>
          /\ Len(last.result[1].children) = 1
          /\ last.result[1].children[1].kind = "card"

\* C5 as stated: a grid-item or grid-item-card occurrence (its options valid)
\* logs one warning when the node being filled is no grid-row and none when
\* it is, and returns a grid-item node, with the card in it for a card.
C5_ItemAlwaysReturnsItem ==
    (EndedAs({"grid-item", "grid-item-card"}) /\ OptionsValid(last.inst)) =>
        ItemWarnsOnceAndReturnsItem

\* C5 amended: ... an occurrence that has content ...; one without content
\* logs no warning and returns no node.
C5_ItemWithContentWarnsOnce ==
    (EndedAs({"grid-item", "grid-item-card"}) /\ OptionsValid(last.inst)) =>
        IF last.inst.has_content
        THEN ItemWarnsOnceAndReturnsItem
        ELSE WarningsBy(last.inst.src) = {} /\ last.result = <<>>

C5_Witness ==
    /\ EndedAs({"grid-item-card"}) /\ last.outcome = "node"
    /\ last.context = "grid-item"
    /\ Cardinality(WarningsBy(last.inst.src)) = 1

\* C7 as stated: an occurrence whose argument and options are valid returns
\* a component node, also when it has no content.
C7_ValidAlwaysReturnsNode ==
    (EndedAs({"grid", "grid-item", "grid-item-card"})
        /\ OptionsValid(last.inst) /\ ArgumentValid(last.inst)) =>
        /\ last.outcome = "node"
        /\ Len(last.result) = 1 /\ IsComponentNode(last.result[1])

\* C7 amended: an occurrence that has ended returned a component node exactly
\* when its argument and options are valid and it has content; one that is
\* valid and has no content ended with the error of assert_has_content.
C7_ReturnsNodeIffValidWithContent ==
    EndedAs({"grid", "grid-item", "grid-item-card"}) =>
        LET valid == OptionsValid(last.inst) /\ ArgumentValid(last.inst)
        IN  /\ last.outcome = "node" <=> (valid /\ last.inst.has_content)
            /\ last.outcome = "node" => Len(last.result) = 1 /\ IsComponentNode(last.result[1])
            /\ last.outcome # "node" => last.result = <<>>
            /\ (valid /\ ~last.inst.has_content) => last.outcome = "no-content"
            /\ halted <=> ~ArgumentValid(last.inst) /\ OptionsValid(last.inst)

C7_Witness ==
    /\ EndedAs({"grid"}) /\ last.outcome = "node"
    /\ last.inst.arguments # <<>>
    /\ \E i \in 1..Len(last.content) : ~last.content[i].has_content

\* What C8 says of a grid that returned, given which of its content's
\* occurrences count as grid-items that build.
GridBuildsRowOfItems(Builds(_)) ==
    LET container == last.result[1]
        row == container.children[1]
        content == last.content
    IN  /\ Len(last.result) = 1 /\ container.kind = "grid-container"
        /\ Len(container.children) = 1 /\ row.kind = "grid-row"
        /\ Len(row.children) = Len(content)
        /\ \A i \in 1..Len(content) : row.children[i].src = content[i].src
        /\ (\A i \in 1..Len(content) : Builds(content[i])) =>
              /\ row.classes =
                    <<"sd-row">>
                    \o (IF last.inst.arguments = <<>> THEN <<>>
                        ELSE row_columns_option(last.inst.arguments[1]).classes)
                    \o (IF Has(last.inst.raw, "gutter")
                        THEN gutter_option(Get(last.inst.raw, "gutter", None)).classes
                        ELSE <<>>)
              /\ \A i \in 1..Len(content) :
                    /\ row.children[i].kind = "grid-item"
                    /\ row.children[i].classes =
                          <<"sd-col", "sd-d-flex">>
                          \o (IF Has(content[i].raw, "columns")
                              THEN item_columns_option(Get(content[i].raw, "columns", None)).classes
                              ELSE <<>>)
                    /\ WarningsBy(content[i].src) = {}
              /\ WarningsBy(last.inst.src) = {}

ValidItem(block) == block.name = "grid-item" /\ OptionsValid(block)

ValidItemWithContent(block) == ValidItem(block) /\ block.has_content

IsPrefix(s, t) == Len(s) <= Len(t) /\ SubSeq(t, 1, Len(s)) = s

\* The order of two warnings when one is logged by an occurrence the other
\* was logged inside of: an item's comes before those of its content, a
\* grid's after.
WarningsInNestingOrder ==
    \A i, j \in 1..Len(sink) :
        i < j =>
            /\ sink[i].by \in sink[j].within => sink[i].about = "parent"
            /\ sink[j].by \in sink[i].within => sink[j].about = "children"

\* When a grid returns, its warning, if any, is the newest record.
RowWarningIsNewestAtReturn ==
    (EndedAs({"grid"}) /\ last.outcome = "node") =>
        \A k \in WarningsBy(last.inst.src) : k = Len(sink)

\* C10: the sink only grows at its end; an item's parent warning precedes
\* every warning of its content, and a grid's row warning follows every
\* warning of its content and is there when the grid returns.
C10_SinkGrowsInNestingOrder ==
    /\ [][IsPrefix(sink, sink')]_vars
    /\ [](WarningsInNestingOrder /\ RowWarningIsNewestAtReturn)

C10_Witness ==
    /\ Len(sink) = 2
    /\ sink[1].about = "parent" /\ sink[1].by \in sink[2].within
    /\ sink[2].about = "children"
    /\ EndedAs({"grid"})

====
